---- MODULE Spec2Model ----
\* A model of the DeviceNode controller of pkg/mgmt/devicenode/devicenode.go:
\* the reconciler (syncHandler, syncNode, isOwnerRefsUpdateRequired), the
\* notification handlers (addNode, updateNode, deleteNode, enqueueNode), the
\* scheduler (Run, runWorker, processNextWorkItem), and the collaborators they
\* call: the rate-limited work queue, the informer cache, the record store and
\* the device provider.
EXTENDS Integers, Sequences, FiniteSets, TLC

\* ---------------------------------------------------------------- bounds

\* Number of worker goroutines Run launches (its threadiness argument).
Threadiness == 2
\* Longest device list the provider returns / the store holds in the
\* enumerated inputs.
MaxDevices == 2
\* Longest owner-reference list of an enumerated record.
MaxOwnerRefs == 2
\* How many environment disturbances (provider changes, external writes,
\* injected call failures) one behaviour of the controller may contain.
MaxEvents == 1
\* Level at which a key's consecutive-failure count saturates; the delay has
\* reached its cap by then.
MaxRequeues == 2
\* Level at which the count of Add calls made during one processing saturates.
MaxAdds == 2

\* ---------------------------------------------------------------- values

\* Strings that are taken apart or put together by the code are sequences of
\* characters.
Slash == "/"
DeviceNamespace == <<"o">>
NodeID == <<"n">>
OtherNamespace == <<"x">>
OtherNodeID == <<"m">>

Nil == [nil |-> TRUE]

\* What a worker holds when it holds no item.
NoItem == <<>>

Workers == 1..Threadiness

DeviceNames == {"A", "B", "C"}

RECURSIVE SeqsUpTo(_, _)
\* The sequences over S of length at most n.
SeqsUpTo(S, n) ==
    IF n = 0 THEN {<<>>}
    ELSE LET shorter == SeqsUpTo(S, n - 1)
         IN  shorter \cup {Append(s, x) : s \in {t \in shorter : Len(t) = n - 1}, x \in S}

Range(s) == {s[i] : i \in 1..Len(s)}

NoDuplicates(s) == \A i, j \in 1..Len(s) : i # j => s[i] # s[j]

\* The device lists the provider may report: no device twice.
DeviceLists == {s \in SeqsUpTo(DeviceNames, MaxDevices) : NoDuplicates(s)}

\* metav1.OwnerReference: UID, Controller (*bool: nil, true or false) and the
\* remaining descriptive fields, of which Name stands for all.
OwnerRefValues ==
    [uid : {"u1"}, controller : {"nil", "true", "false"}, name : {"ds", "old"}]
    \cup [uid : {"u2"}, controller : {"true"}, name : {"other"}]

OwnerRefLists == SeqsUpTo(OwnerRefValues, MaxOwnerRefs)

\* The owner references the controller may be configured with (c.ownerRef).
RequiredOwnerRefs == [uid : {"u1"}, controller : {"nil", "true"}, name : {"ds"}]

\* ------------------------------------------------------------------ keys

\* cache.MetaNamespaceKeyFunc: "<namespace>/<name>", or "<name>" alone for an
\* object without a namespace.
MetaNamespaceKeyFunc(node) ==
    IF Len(node.namespace) > 0
    THEN node.namespace \o <<Slash>> \o node.name
    ELSE node.name

RECURSIVE Split(_)
\* strings.Split(key, "/"): the pieces between the slashes.
Split(key) ==
    IF \A i \in 1..Len(key) : key[i] # Slash THEN <<key>>
    ELSE LET i == CHOOSE k \in 1..Len(key) :
                      key[k] = Slash /\ \A j \in 1..(k - 1) : key[j] # Slash
         IN  <<SubSeq(key, 1, i - 1)>> \o Split(SubSeq(key, i + 1, Len(key)))

\* cache.SplitMetaNamespaceKey: one piece is a name without namespace, two
\* pieces are namespace and name, anything else is an error.
SplitMetaNamespaceKey(key) ==
    LET parts == Split(key)
    IN  IF Len(parts) = 1
        THEN [namespace |-> <<>>, name |-> parts[1], err |-> FALSE]
        ELSE IF Len(parts) = 2
        THEN [namespace |-> parts[1], name |-> parts[2], err |-> FALSE]
        ELSE [namespace |-> <<>>, name |-> <<>>, err |-> TRUE]

\* The item the resync timer enqueues: DeviceNamespace + "/" + NodeID.
LocalKey == DeviceNamespace \o <<Slash>> \o NodeID

\* What a notification handler may be handed: a DeviceNode (of this node or
\* of another), a tombstone holding one, a tombstone holding something else,
\* or an object of another type.
DeviceNodeObject(ns, name) == [type |-> "DeviceNode", namespace |-> ns, name |-> name]

Tombstone(obj) == [type |-> "DeletedFinalStateUnknown", obj |-> obj]

OtherObject == [type |-> "Other"]

DeviceNodeObjects ==
    {DeviceNodeObject(ns, name) : ns \in {DeviceNamespace, OtherNamespace},
                                  name \in {NodeID, OtherNodeID}}

NotificationObjects ==
    DeviceNodeObjects \cup {Tombstone(o) : o \in DeviceNodeObjects \cup {OtherObject}}
    \cup {OtherObject}

\* Every key a notification could be turned into.
AllKeys == {MetaNamespaceKeyFunc(o) : o \in DeviceNodeObjects}

\* The characters of the strings above.
Chars == {"o", "n", "x", "m", "z", Slash}

\* obj.(string): the item is a string.
IsString(it) == \A i \in 1..Len(it) : it[i] \in Chars

\* A string that is no key: it has three pieces.
MalformedKey == <<"o", Slash, "n", Slash, "z">>

\* An item that is not a string.
NotAString == <<"object">>

\* Every item the work queue (of interface{} items) may be given.
Items == AllKeys \cup {MalformedKey, NotAString}

Handlers == {"add", "update", "delete"}

\* What the informer hands to a handler of that kind: tombstones go to the
\* delete handler only.
ObjectsFor(handler) ==
    IF handler = "delete" THEN NotificationObjects
    ELSE DeviceNodeObjects \cup {OtherObject}

VARIABLES
    store,            \* the record store's DeviceNode of this node, or Nil
    resourceVersion,  \* the store's last assigned version token
    cache,            \* the informer cache's copy of that record, or Nil
    nodeSynced,       \* c.NodeSynced: the informer cache has synced
    diskDetails,      \* what device.GetDiskDetails() currently returns
    ownerRef,         \* c.ownerRef
    workqueue,        \* c.workqueue
    pc,               \* each worker goroutine's position
    item,             \* the item each worker holds between Get and Done
    runPc,            \* Run's position
    stopCh,           \* TRUE once stopCh is closed
    timerReady,       \* TRUE while the resync timer's channel holds a tick
    events,           \* environment disturbances left
    addsDuring,       \* per key: Add calls since it was last handed to a worker
    backoff,          \* per item: the delay of its last pass's requeue, 0 if that succeeded
    last              \* the operation performed by the last step, with its outcome

vars == <<store, resourceVersion, cache, nodeSynced, diskDetails, ownerRef,
          workqueue, pc, item, runPc, stopCh, timerReady, events, addsDuring,
          backoff, last>>

\* ------------------------------------------------------------ work queue

Min(a, b) == IF a < b THEN a ELSE b

\* The rate limiter's delays, in units of its base delay: the first failure
\* of an item is delayed by BaseDelay, each further one by twice the delay of
\* the one before, up to MaxDelay.
BaseDelay == 1
MaxDelay == 2

RECURSIVE Pow2(_)
Pow2(n) == IF n = 0 THEN 1 ELSE 2 * Pow2(n - 1)

\* The limiter's When(item) for an item that failed n times before.
When(n) == Min(BaseDelay * Pow2(n), MaxDelay)

\* delay[k] is the delay of k's last AddRateLimited since its last Forget, 0
\* when there was none.
NewQueue ==
    [queue |-> <<>>, dirty |-> {}, processing |-> {}, shuttingDown |-> FALSE,
     waitingForAdd |-> {}, failures |-> [k \in Items |-> 0],
     delay |-> [k \in Items |-> 0]]

\* Add: nothing once shut down or when the item is already dirty; otherwise
\* the item becomes dirty and, unless it is being processed, is queued.
QAdd(q, it) ==
    IF q.shuttingDown \/ it \in q.dirty THEN q
    ELSE IF it \in q.processing THEN [q EXCEPT !.dirty = @ \cup {it}]
    ELSE [q EXCEPT !.dirty = @ \cup {it}, !.queue = Append(@, it)]

\* Get hands out the head of the queue: it moves from dirty to processing.
QGet(q) ==
    [q EXCEPT !.queue = Tail(@), !.processing = @ \cup {Head(q.queue)},
              !.dirty = @ \ {Head(q.queue)}]

\* Done: the item is no longer processing; if it was added meanwhile it is
\* queued again.
QDone(q, it) ==
    IF it \in q.dirty
    THEN [q EXCEPT !.processing = @ \ {it}, !.queue = Append(@, it)]
    ELSE [q EXCEPT !.processing = @ \ {it}]

\* Forget: the item's failure count is reset.
QForget(q, it) == [q EXCEPT !.failures[it] = 0, !.delay[it] = 0]

\* AddRateLimited: the limiter counts one more failure of the item, and the
\* item is added after the delay the limiter gives, unless the queue is shut
\* down.
QAddRateLimited(q, it) ==
    LET counted == [q EXCEPT !.failures[it] = Min(@ + 1, MaxRequeues),
                             !.delay[it] = When(q.failures[it])]
    IN  IF q.shuttingDown THEN counted
        ELSE [counted EXCEPT !.waitingForAdd = @ \cup {it}]

\* ShutDown: the queue accepts nothing more; Get reports shutdown once the
\* queue is empty.
QShutDown(q) == [q EXCEPT !.shuttingDown = TRUE]

Count(s, x) == Cardinality({i \in 1..Len(s) : s[i] = x})

\* ------------------------------------------------- store, cache, provider

\* A DeviceNode as the store holds it; rv is the store-assigned version token.
DeviceNode(ns, name, devs, refs, rv) ==
    [namespace |-> ns, name |-> name, devices |-> devs, ownerRefs |-> refs, rv |-> rv]

\* c.NodeLister.DeviceNodes(namespace).Get(name): the cached record, a
\* not-found error, or (fails) another error.
NodeListerGet(namespace, name, fails) ==
    IF fails THEN [node |-> Nil, err |-> "Other"]
    ELSE IF cache # Nil /\ cache.namespace = namespace /\ cache.name = name
    THEN [node |-> cache, err |-> "none"]
    ELSE [node |-> Nil, err |-> "NotFound"]

\* cachedNode.DeepCopy(): a copy with the record's contents that shares no
\* memory with the cached record.
DeepCopy(node) == [node |-> node, shared |-> FALSE]

\* A slip: the provider's error is dropped and an empty list returned.
listDeviceNames_SwallowsError(fails) ==
    IF fails THEN [devices |-> <<>>, err |-> FALSE]
    ELSE [devices |-> diskDetails, err |-> FALSE]

\* c.listDeviceNames(): device.GetDiskDetails(), which may fail.
listDeviceNames(fails) ==
    IF fails THEN [devices |-> <<>>, err |-> TRUE]
    ELSE [devices |-> diskDetails, err |-> FALSE]

\* nodebuilder.NewBuilder().WithNamespace(..).WithName(..).WithDevices(..)
\* .WithOwnerReferences(..).Build(): a new record with that identity, those
\* devices and that owner reference, and no version token yet.
Build(namespace, name, devs, ownerReference) ==
    DeviceNode(namespace, name, devs, <<ownerReference>>, 0)

\* Kubeclient.Create: one all-or-nothing call; it fails when the store
\* already holds the record, or for a reason of the store's own (fails).
Create(node, fails) ==
    IF fails \/ (MetaNamespaceKeyFunc(node) = LocalKey /\ store # Nil)
    THEN [err |-> TRUE, store |-> store, resourceVersion |-> resourceVersion]
    ELSE IF MetaNamespaceKeyFunc(node) # LocalKey
    THEN [err |-> FALSE, store |-> store, resourceVersion |-> resourceVersion]
    ELSE [err |-> FALSE,
          store |-> [node EXCEPT !.rv = resourceVersion + 1],
          resourceVersion |-> resourceVersion + 1]

\* Kubeclient.Update: one all-or-nothing call; it fails when the record is
\* gone, when the submitted version token is not the stored one, or for a
\* reason of the store's own (fails).
Update(node, fails) ==
    IF fails \/ store = Nil \/ MetaNamespaceKeyFunc(node) # LocalKey
    THEN [err |-> TRUE, store |-> store, resourceVersion |-> resourceVersion]
    ELSE IF store.rv # node.rv
    THEN [err |-> TRUE, store |-> store, resourceVersion |-> resourceVersion]
    ELSE [err |-> FALSE,
          store |-> [node EXCEPT !.rv = resourceVersion + 1],
          resourceVersion |-> resourceVersion + 1]

\* equality.Semantic.DeepEqual on two device lists: the same devices,
\* whatever their order.
SemanticDeepEqual(a, b) ==
    /\ Len(a) = Len(b)
    /\ \A d \in Range(a) \cup Range(b) : Count(a, d) = Count(b, d)

\* ------------------------------------------------------------ reconciler

\* The index of the first owner reference with that UID, 0 when there is none.
FirstWithUID(ownerRefs, uid) ==
    IF \A i \in 1..Len(ownerRefs) : ownerRefs[i].uid # uid THEN 0
    ELSE CHOOSE i \in 1..Len(ownerRefs) :
             ownerRefs[i].uid = uid /\ \A j \in 1..(i - 1) : ownerRefs[j].uid # uid

\* A slip: "updated" is set whenever the loop finds the entry.
isOwnerRefsUpdateRequired_AlwaysUpdated(ownerRefs) ==
    LET reqOwnerRef == ownerRef
        idx == FirstWithUID(ownerRefs, reqOwnerRef.uid)
    IN  IF idx = 0
        THEN [ownerRefs |-> Append(ownerRefs, reqOwnerRef), updated |-> TRUE]
        ELSE [ownerRefs |-> [ownerRefs EXCEPT ![idx].controller = reqOwnerRef.controller],
              updated |-> TRUE]

\* A slip: the required reference replaces the list instead of being appended.
isOwnerRefsUpdateRequired_ReplaceAll(ownerRefs) ==
    LET reqOwnerRef == ownerRef
        idx == FirstWithUID(ownerRefs, reqOwnerRef.uid)
    IN  IF idx = 0
        THEN [ownerRefs |-> <<reqOwnerRef>>, updated |-> TRUE]
        ELSE IF ownerRefs[idx].controller # reqOwnerRef.controller
        THEN [ownerRefs |-> [ownerRefs EXCEPT ![idx].controller = reqOwnerRef.controller],
              updated |-> TRUE]
        ELSE [ownerRefs |-> ownerRefs, updated |-> FALSE]

\* A slip: the whole entry is overwritten, not its Controller field alone.
isOwnerRefsUpdateRequired_OverwriteEntry(ownerRefs) ==
    LET reqOwnerRef == ownerRef
        idx == FirstWithUID(ownerRefs, reqOwnerRef.uid)
    IN  IF idx = 0
        THEN [ownerRefs |-> Append(ownerRefs, reqOwnerRef), updated |-> TRUE]
        ELSE IF ownerRefs[idx].controller # reqOwnerRef.controller
        THEN [ownerRefs |-> [ownerRefs EXCEPT ![idx] = reqOwnerRef], updated |-> TRUE]
        ELSE [ownerRefs |-> ownerRefs, updated |-> FALSE]

\* isOwnerRefsUpdateRequired: the owner references to set, and whether they
\* differ from the ones given.
isOwnerRefsUpdateRequired(ownerRefs) ==
    LET reqOwnerRef == ownerRef
        idx == FirstWithUID(ownerRefs, reqOwnerRef.uid)
    IN  IF idx = 0
        THEN [ownerRefs |-> Append(ownerRefs, reqOwnerRef), updated |-> TRUE]
        ELSE IF ownerRefs[idx].controller # reqOwnerRef.controller
        THEN [ownerRefs |-> [ownerRefs EXCEPT ![idx].controller = reqOwnerRef.controller],
              updated |-> TRUE]
        ELSE [ownerRefs |-> ownerRefs, updated |-> FALSE]

\* What one pass of syncNode did: whether it returned an error, the lister,
\* provider, create and update calls it issued, the record it submitted, and
\* the store and the cached record after it.
Pass(err, reads, lists, creates, updates, submitted, st, rv, cached) ==
    [err |-> err, reads |-> reads, lists |-> lists, creates |-> creates,
     updates |-> updates, submitted |-> submitted, store |-> st,
     resourceVersion |-> rv, cache |-> cached]

\* A slip: the cached record itself is worked on.
WorkingCopy_Shared(got) ==
    [node |-> got.node, shared |-> got.node # Nil]

\* syncNode, "var node *apis.DeviceNode": nil, or a deep copy of the cached
\* record.
WorkingCopy(got) ==
    IF got.node # Nil THEN DeepCopy(got.node) ELSE [node |-> Nil, shared |-> FALSE]

\* F of the value of v, which is computed once.
With(v, F(_)) == CHOOSE r \in {F(x) : x \in {v}} : TRUE

\* A slip: the error of Create is not returned.
CreateNode_IgnoresError(namespace, name, devices, storeFails) ==
    With(Build(namespace, name, devices, ownerRef), LAMBDA built :
    With(Create(built, storeFails), LAMBDA r :
        Pass(FALSE, 1, 1, 1, 0, built, r.store, r.resourceVersion, cache)))

\* syncNode, "if it doesn't exists, create device node object": the record is
\* built and submitted in one create call.
CreateNode(namespace, name, devices, storeFails) ==
    With(Build(namespace, name, devices, ownerRef), LAMBDA built :
    With(Create(built, storeFails), LAMBDA r :
        Pass(r.err, 1, 1, 1, 0, built, r.store, r.resourceVersion, cache)))

\* A slip: the devices the provider lacks are kept, the new ones added.
Converged_Union(node, devices) ==
    With(isOwnerRefsUpdateRequired(node.ownerRefs), LAMBDA owner :
    With(IF owner.updated THEN [node EXCEPT !.ownerRefs = owner.ownerRefs] ELSE node,
         LAMBDA repaired :
    With(~SemanticDeepEqual(repaired.devices, devices), LAMBDA differ :
        [node |-> IF differ
                  THEN [repaired EXCEPT !.devices =
                            @ \o SelectSeq(devices, LAMBDA d : d \notin Range(@))]
                  ELSE repaired,
         updateRequired |-> owner.updated \/ differ])))

\* A slip: the lists are compared element by element, in order.
Converged_OrderSensitive(node, devices) ==
    With(isOwnerRefsUpdateRequired(node.ownerRefs), LAMBDA owner :
    With(IF owner.updated THEN [node EXCEPT !.ownerRefs = owner.ownerRefs] ELSE node,
         LAMBDA repaired :
    With(repaired.devices # devices, LAMBDA differ :
        [node |-> IF differ THEN [repaired EXCEPT !.devices = devices] ELSE repaired,
         updateRequired |-> owner.updated \/ differ])))

\* syncNode, from "device node already exists" on: the owner references
\* repaired, the devices replaced when they differ, and whether either
\* happened.
Converged(node, devices) ==
    With(isOwnerRefsUpdateRequired(node.ownerRefs), LAMBDA owner :
    With(IF owner.updated THEN [node EXCEPT !.ownerRefs = owner.ownerRefs] ELSE node,
         LAMBDA repaired :
    With(~SemanticDeepEqual(repaired.devices, devices), LAMBDA differ :
        [node |-> IF differ THEN [repaired EXCEPT !.devices = devices] ELSE repaired,
         updateRequired |-> owner.updated \/ differ])))

\* A slip: the lister is bypassed and the record is looked for in the store.
syncNode_ReadsStore(namespace, name, listerFails, providerFails, storeFails) ==
    With(IF listerFails THEN [node |-> Nil, err |-> "Other"]
         ELSE IF store # Nil THEN [node |-> store, err |-> "none"]
         ELSE [node |-> Nil, err |-> "NotFound"], LAMBDA got :
    With(WorkingCopy(got), LAMBDA copy :
        IF got.err = "Other"
        THEN Pass(TRUE, 1, 0, 0, 0, Nil, store, resourceVersion, cache)
        ELSE
    With(listDeviceNames(providerFails), LAMBDA listed :
        IF listed.err THEN Pass(TRUE, 1, 1, 0, 0, Nil, store, resourceVersion, cache)
        ELSE IF copy.node = Nil
        THEN CreateNode(namespace, name, listed.devices, storeFails)
        ELSE With(Converged(copy.node, listed.devices), LAMBDA c :
             With(IF copy.shared THEN c.node ELSE cache, LAMBDA cached :
                 IF ~c.updateRequired
                 THEN Pass(FALSE, 1, 1, 0, 0, Nil, store, resourceVersion, cached)
                 ELSE With(Update(c.node, storeFails), LAMBDA r :
                          Pass(r.err, 1, 1, 0, 1, c.node, r.store, r.resourceVersion,
                               cached)))))))

\* syncNode(namespace, name). The three flags are the outcomes of the calls
\* it makes: the lister's, the provider's, the store's.
syncNode(namespace, name, listerFails, providerFails, storeFails) ==
    With(NodeListerGet(namespace, name, listerFails), LAMBDA got :
    With(WorkingCopy(got), LAMBDA copy :
        IF got.err = "Other"
        THEN Pass(TRUE, 1, 0, 0, 0, Nil, store, resourceVersion, cache)
        ELSE
    With(listDeviceNames(providerFails), LAMBDA listed :
        IF listed.err THEN Pass(TRUE, 1, 1, 0, 0, Nil, store, resourceVersion, cache)
        ELSE IF copy.node = Nil
        THEN CreateNode(namespace, name, listed.devices, storeFails)
        ELSE With(Converged(copy.node, listed.devices), LAMBDA c :
             With(IF copy.shared THEN c.node ELSE cache, LAMBDA cached :
                 IF ~c.updateRequired
                 THEN Pass(FALSE, 1, 1, 0, 0, Nil, store, resourceVersion, cached)
                 ELSE With(Update(c.node, storeFails), LAMBDA r :
                          Pass(r.err, 1, 1, 0, 1, c.node, r.store, r.resourceVersion,
                               cached)))))))

\* A slip: the error of SplitMetaNamespaceKey is returned.
syncHandler_ReturnsSplitError(key, listerFails, providerFails, storeFails) ==
    With(SplitMetaNamespaceKey(key), LAMBDA split :
        IF split.err
        THEN Pass(TRUE, 0, 0, 0, 0, Nil, store, resourceVersion, cache)
        ELSE syncNode(split.namespace, split.name, listerFails, providerFails,
                      storeFails))

\* syncHandler(key): a key that cannot be split is dropped without error.
syncHandler(key, listerFails, providerFails, storeFails) ==
    With(SplitMetaNamespaceKey(key), LAMBDA split :
        IF split.err
        THEN Pass(FALSE, 0, 0, 0, 0, Nil, store, resourceVersion, cache)
        ELSE syncNode(split.namespace, split.name, listerFails, providerFails,
                      storeFails))

\* -------------------------------------------------- notification handlers

\* Each handler is given by the keys it passes to c.workqueue.Add, in order.

\* A slip: "&&" for "||", so that a node is skipped only when both its
\* namespace and its name are foreign.
enqueueNode_BothForeign(node) ==
    IF node.namespace # DeviceNamespace /\ node.name # NodeID THEN <<>>
    ELSE <<MetaNamespaceKeyFunc(node)>>

\* enqueueNode: a node that is not this node's record is skipped.
enqueueNode(node) ==
    IF node.namespace # DeviceNamespace \/ node.name # NodeID THEN <<>>
    ELSE <<MetaNamespaceKeyFunc(node)>>

\* addNode: the add event handler.
addNode(obj) ==
    IF obj.type # "DeviceNode" THEN <<>> ELSE enqueueNode(obj)

\* updateNode: the update event handler; only the new object is looked at.
updateNode(oldObj, newObj) ==
    IF newObj.type # "DeviceNode" THEN <<>> ELSE enqueueNode(newObj)

\* deleteNode: the delete event handler; a tombstone is unwrapped.
deleteNode(obj) ==
    IF obj.type = "DeviceNode" THEN enqueueNode(obj)
    ELSE IF obj.type # "DeletedFinalStateUnknown" THEN <<>>
    ELSE IF obj.obj.type # "DeviceNode" THEN <<>>
    ELSE enqueueNode(obj.obj)

\* The handler the informer calls for an event of that kind.
Handle(handler, obj) ==
    IF handler = "add" THEN addNode(obj)
    ELSE IF handler = "update" THEN updateNode(obj, obj)
    ELSE deleteNode(obj)

RECURSIVE AddAll(_, _)
\* The queue after Add of each of the keys.
AddAll(q, keys) ==
    IF keys = <<>> THEN q ELSE AddAll(QAdd(q, Head(keys)), Tail(keys))

RECURSIVE CountAdds(_, _, _)
\* addsDuring after Add of each of the keys: a call counts for a key that a
\* worker is processing, while the queue is open.
CountAdds(q, counts, keys) ==
    IF keys = <<>> THEN counts
    ELSE LET k == Head(keys)
         IN  CountAdds(q,
                       IF k \in q.processing /\ ~q.shuttingDown
                       THEN [counts EXCEPT ![k] = Min(@ + 1, MaxAdds)]
                       ELSE counts,
                       Tail(keys))

NoOp == [op |-> "none"]

IsTombstone(obj) == obj.type = "DeletedFinalStateUnknown"

\* The object is this node's record, or a tombstone holding it.
IsLocal(obj) ==
    LET o == IF IsTombstone(obj) THEN obj.obj ELSE obj
    IN  o.type = "DeviceNode" /\ o.namespace = DeviceNamespace /\ o.name = NodeID

\* ---------------------------------------------------------------- actions

\* The informer delivers a notification about some object other than a live
\* change of this node's record (another node's record, a resync, a
\* tombstone, an object of another type).
Notify(handler, obj) ==
    /\ workqueue' = AddAll(workqueue, Handle(handler, obj))
    /\ addsDuring' = CountAdds(workqueue, addsDuring, Handle(handler, obj))
    /\ UNCHANGED backoff
    /\ last' = [op |-> "notify", local |-> IsLocal(obj), tombstone |-> IsTombstone(obj),
                changed |-> workqueue' # workqueue]
    /\ UNCHANGED <<store, resourceVersion, cache, nodeSynced, diskDetails, ownerRef,
                   pc, item, runPc, stopCh, timerReady, events>>

\* The informer brings its cache up to date with the store and calls the
\* handler for the change it saw; a delete may arrive as a tombstone.
Informer ==
    /\ cache # store \/ ~nodeSynced
    /\ cache' = store
    /\ nodeSynced' = TRUE
    /\ \E tomb \in BOOLEAN :
         LET keys ==
               IF cache = store THEN <<>>
               ELSE IF cache = Nil
               THEN addNode(DeviceNodeObject(store.namespace, store.name))
               ELSE IF store = Nil
               THEN deleteNode(IF tomb
                               THEN Tombstone(DeviceNodeObject(cache.namespace, cache.name))
                               ELSE DeviceNodeObject(cache.namespace, cache.name))
               ELSE updateNode(DeviceNodeObject(cache.namespace, cache.name),
                               DeviceNodeObject(store.namespace, store.name))
         IN  /\ workqueue' = AddAll(workqueue, keys)
             /\ addsDuring' = CountAdds(workqueue, addsDuring, keys)
             /\ UNCHANGED backoff
    /\ last' = NoOp
    /\ UNCHANGED <<store, resourceVersion, diskDetails, ownerRef, pc, item, runPc,
                   stopCh, timerReady, events>>

\* The devices of the node change.
ProviderChanges == {<<"A", "C">>, <<"C", "A">>, <<"B">>}

ProviderChange ==
    /\ events > 0
    /\ events' = events - 1
    /\ \E d \in ProviderChanges \ {diskDetails} : diskDetails' = d
    /\ last' = NoOp
    /\ UNCHANGED <<store, resourceVersion, cache, nodeSynced, ownerRef, workqueue,
                   pc, item, runPc, stopCh, timerReady, addsDuring, backoff>>

\* Someone else writes the record: deletes it, strips or damages its owner
\* references, or changes its devices.
ExternalWrites(node) ==
    {Nil,
     [node EXCEPT !.ownerRefs = <<>>],
     [node EXCEPT !.ownerRefs = <<[uid |-> "u1", controller |-> "false", name |-> "old"]>>],
     [node EXCEPT !.devices = <<"B">>]}

ExternalWrite ==
    /\ events > 0
    /\ store # Nil
    /\ events' = events - 1
    /\ resourceVersion' = resourceVersion + 1
    /\ \E n \in ExternalWrites(store) :
         /\ n # store
         /\ store' = IF n = Nil THEN Nil ELSE [n EXCEPT !.rv = resourceVersion + 1]
    /\ last' = NoOp
    /\ UNCHANGED <<cache, nodeSynced, diskDetails, ownerRef, workqueue, pc, item,
                   runPc, stopCh, timerReady, addsDuring, backoff>>

\* stopCh is closed.
Stop ==
    /\ ~stopCh
    /\ stopCh' = TRUE
    /\ last' = NoOp
    /\ UNCHANGED <<store, resourceVersion, cache, nodeSynced, diskDetails, ownerRef,
                   workqueue, pc, item, runPc, timerReady, events, addsDuring, backoff>>

\* The delay of a rate-limited add is over: the key is added.
DelayExpire(key) ==
    /\ key \in workqueue.waitingForAdd
    /\ ~workqueue.shuttingDown
    /\ workqueue' = QAdd([workqueue EXCEPT !.waitingForAdd = @ \ {key}], key)
    /\ addsDuring' = CountAdds(workqueue, addsDuring, <<key>>)
    /\ UNCHANGED backoff
    /\ last' = NoOp
    /\ UNCHANGED <<store, resourceVersion, cache, nodeSynced, diskDetails, ownerRef,
                   pc, item, runPc, stopCh, timerReady, events>>

\* A slip: the workers are launched without waiting for the cache.
RunStartWorkers_NoWait ==
    /\ runPc = "waitSync"
    /\ pc' = [w \in Workers |-> "start"]
    /\ timerReady' = TRUE
    /\ runPc' = "loop"
    /\ last' = NoOp
    /\ UNCHANGED <<store, resourceVersion, cache, nodeSynced, diskDetails, ownerRef,
                   workqueue, item, stopCh, events, addsDuring, backoff>>

\* Run: WaitForCacheSync returned true; the workers are launched and the
\* resync timer is created with a zero duration.
RunStartWorkers ==
    /\ runPc = "waitSync"
    /\ nodeSynced
    /\ pc' = [w \in Workers |-> "start"]
    /\ timerReady' = TRUE
    /\ runPc' = "loop"
    /\ last' = NoOp
    /\ UNCHANGED <<store, resourceVersion, cache, nodeSynced, diskDetails, ownerRef,
                   workqueue, item, stopCh, events, addsDuring, backoff>>

\* Run: stopCh was closed while WaitForCacheSync was waiting; Run returns an
\* error, and its deferred ShutDown runs.
RunSyncFailed ==
    /\ runPc = "waitSync"
    /\ stopCh
    /\ workqueue' = QShutDown(workqueue)
    /\ runPc' = "failed"
    /\ last' = NoOp
    /\ UNCHANGED <<store, resourceVersion, cache, nodeSynced, diskDetails, ownerRef,
                   pc, item, stopCh, timerReady, events, addsDuring, backoff>>

\* A slip: the tick is taken and the timer reset, but nothing is added.
RunTimer_NoAdd ==
    /\ runPc = "loop"
    /\ timerReady
    /\ timerReady' = FALSE
    /\ last' = [op |-> "timer", stopped |-> stopCh, added |-> FALSE]
    /\ UNCHANGED <<store, resourceVersion, cache, nodeSynced, diskDetails, ownerRef,
                   workqueue, addsDuring, backoff, pc, item, runPc, stopCh, events>>

\* Run: the select takes the timer's tick; the local node's key is added and
\* the timer is reset.
RunTimer ==
    /\ runPc = "loop"
    /\ timerReady
    /\ workqueue' = QAdd(workqueue, DeviceNamespace \o <<Slash>> \o NodeID)
    /\ addsDuring' = CountAdds(workqueue, addsDuring,
                               <<DeviceNamespace \o <<Slash>> \o NodeID>>)
    /\ UNCHANGED backoff
    /\ timerReady' = FALSE
    /\ last' = [op |-> "timer", stopped |-> stopCh,
                added |-> LocalKey \notin workqueue.dirty /\ LocalKey \in workqueue'.dirty]
    /\ UNCHANGED <<store, resourceVersion, cache, nodeSynced, diskDetails, ownerRef,
                   pc, item, runPc, stopCh, events>>

\* The poll interval has passed: the timer's channel holds a tick.
Tick ==
    /\ runPc = "loop"
    /\ ~timerReady
    /\ timerReady' = TRUE
    /\ last' = NoOp
    /\ UNCHANGED <<store, resourceVersion, cache, nodeSynced, diskDetails, ownerRef,
                   workqueue, pc, item, runPc, stopCh, events, addsDuring, backoff>>

\* Run: the select takes stopCh; Run returns nil, and its deferred calls run:
\* timer.Stop(), then c.workqueue.ShutDown().
RunShutdown ==
    /\ runPc = "loop"
    /\ stopCh
    /\ timerReady' = FALSE
    /\ workqueue' = QShutDown(workqueue)
    /\ runPc' = "returned"
    /\ last' = NoOp
    /\ UNCHANGED <<store, resourceVersion, cache, nodeSynced, diskDetails, ownerRef,
                   pc, item, stopCh, events, addsDuring, backoff>>

\* wait.Until(c.runWorker, time.Second, stopCh): the goroutine starts; it
\* calls runWorker unless stopCh is closed already.
WorkerBegin(w) ==
    /\ pc[w] = "start"
    /\ pc' = [pc EXCEPT ![w] = IF stopCh THEN "exited" ELSE "get"]
    /\ last' = NoOp
    /\ UNCHANGED <<store, resourceVersion, cache, nodeSynced, diskDetails, ownerRef,
                   workqueue, item, runPc, stopCh, timerReady, events, addsDuring, backoff>>

\* A slip: Done is called at once, not deferred.
WorkerGet_DoneAtOnce(w) ==
    /\ pc[w] = "get"
    /\ workqueue.queue # <<>> \/ workqueue.shuttingDown
    /\ IF workqueue.queue # <<>>
       THEN /\ workqueue' = QDone(QGet(workqueue), Head(workqueue.queue))
            /\ item' = [item EXCEPT ![w] = Head(workqueue.queue)]
            /\ pc' = [pc EXCEPT ![w] = "sync"]
            /\ addsDuring' = [addsDuring EXCEPT ![Head(workqueue.queue)] = 0]
            /\ UNCHANGED backoff
            /\ last' = [op |-> "get", key |-> Head(workqueue.queue)]
       ELSE /\ pc' = [pc EXCEPT ![w] = "exited"]
            /\ last' = NoOp
            /\ UNCHANGED <<workqueue, item, addsDuring, backoff>>
    /\ UNCHANGED <<store, resourceVersion, cache, nodeSynced, diskDetails, ownerRef,
                   runPc, stopCh, timerReady, events>>

\* A slip: processNextWorkItem returns true when Get reports shutdown, and
\* runWorker calls it again.
WorkerGet_IgnoresShutdown(w) ==
    /\ pc[w] = "get"
    /\ workqueue.queue # <<>> \/ workqueue.shuttingDown
    /\ IF workqueue.queue # <<>>
       THEN /\ workqueue' = QGet(workqueue)
            /\ item' = [item EXCEPT ![w] = Head(workqueue.queue)]
            /\ pc' = [pc EXCEPT ![w] = "sync"]
            /\ addsDuring' = [addsDuring EXCEPT ![Head(workqueue.queue)] = 0]
            /\ UNCHANGED backoff
            /\ last' = [op |-> "get", key |-> Head(workqueue.queue)]
       ELSE /\ pc' = [pc EXCEPT ![w] = "get"]
            /\ last' = NoOp
            /\ UNCHANGED <<workqueue, item, addsDuring, backoff>>
    /\ UNCHANGED <<store, resourceVersion, cache, nodeSynced, diskDetails, ownerRef,
                   runPc, stopCh, timerReady, events>>

\* processNextWorkItem: c.workqueue.Get() returns the head of the queue, or
\* reports shutdown, on which runWorker returns and, stopCh being closed,
\* wait.Until returns too. Get blocks while the queue is empty and open.
WorkerGet(w) ==
    /\ pc[w] = "get"
    /\ workqueue.queue # <<>> \/ workqueue.shuttingDown
    /\ IF workqueue.queue # <<>>
       THEN /\ workqueue' = QGet(workqueue)
            /\ item' = [item EXCEPT ![w] = Head(workqueue.queue)]
            /\ pc' = [pc EXCEPT ![w] = "sync"]
            /\ addsDuring' = [addsDuring EXCEPT ![Head(workqueue.queue)] = 0]
            /\ UNCHANGED backoff
            /\ last' = [op |-> "get", key |-> Head(workqueue.queue)]
       ELSE /\ pc' = [pc EXCEPT ![w] = "exited"]
            /\ last' = NoOp
            /\ UNCHANGED <<workqueue, item, addsDuring, backoff>>
    /\ UNCHANGED <<store, resourceVersion, cache, nodeSynced, diskDetails, ownerRef,
                   runPc, stopCh, timerReady, events>>

\* The outcomes the calls of one pass may have: at most one of them fails,
\* and a failure is a disturbance.
Outcomes == {"ok", "lister", "provider", "store"}

\* A slip: a pass without error does not Forget the item.
Report_NoForget(q, it, err) ==
    IF err THEN QAddRateLimited(q, it) ELSE q

\* A slip: the error is returned without AddRateLimited.
Report_NoRequeue(q, it, err) ==
    IF err THEN q ELSE QForget(q, it)

\* processNextWorkItem, after syncHandler: AddRateLimited(key) if it returned
\* an error, Forget(obj) if not.
Report(q, it, err) ==
    IF err THEN QAddRateLimited(q, it) ELSE QForget(q, it)

\* processNextWorkItem, inside the func: an item that is not a string is
\* given up without a pass; a string goes to syncHandler.
Process(it, listerFails, providerFails, storeFails) ==
    IF ~IsString(it)
    THEN Pass(FALSE, 0, 0, 0, 0, Nil, store, resourceVersion, cache)
    ELSE syncHandler(it, listerFails, providerFails, storeFails)

\* processNextWorkItem: the item is processed and the outcome reported to
\* the queue.
WorkerSync(w) ==
    /\ pc[w] = "sync"
    /\ \E outcome \in Outcomes :
         /\ outcome # "ok" => events > 0
         /\ events' = IF outcome = "ok" THEN events ELSE events - 1
         /\ \E pass \in {Process(item[w], outcome = "lister", outcome = "provider",
                                  outcome = "store")} :
              /\ store' = pass.store
              /\ resourceVersion' = pass.resourceVersion
              /\ cache' = pass.cache
              /\ workqueue' = Report(workqueue, item[w], pass.err)
              /\ backoff' = [backoff EXCEPT ![item[w]] =
                                 IF pass.err THEN workqueue'.delay[item[w]] ELSE 0]
              /\ last' = [op |-> "sync", key |-> item[w], outcome |-> outcome,
                          got |-> NodeListerGet(SplitMetaNamespaceKey(item[w]).namespace,
                                                SplitMetaNamespaceKey(item[w]).name,
                                                outcome = "lister"),
                          listed |-> listDeviceNames(outcome = "provider"),
                          stored |-> store,
                          cached |-> cache,
                          prevDelay |-> backoff[item[w]],
                          pass |-> pass]
    /\ pc' = [pc EXCEPT ![w] = "done"]
    /\ UNCHANGED <<nodeSynced, diskDetails, ownerRef, item, runPc, stopCh,
                   timerReady, addsDuring>>

\* A slip: Done is called explicitly as well as deferred.
WorkerDone_Twice(w) ==
    /\ pc[w] = "done"
    /\ workqueue' = QDone(QDone(workqueue, item[w]), item[w])
    /\ pc' = [pc EXCEPT ![w] = "get"]
    /\ item' = [item EXCEPT ![w] = NoItem]
    /\ last' = [op |-> "done", key |-> item[w], adds |-> addsDuring[item[w]],
                pending |-> Count(workqueue'.queue, item[w])]
    /\ UNCHANGED <<store, resourceVersion, cache, nodeSynced, diskDetails, ownerRef,
                   runPc, stopCh, timerReady, events, addsDuring, backoff>>

\* processNextWorkItem: the deferred c.workqueue.Done(obj); the worker goes
\* on to the next item.
WorkerDone(w) ==
    /\ pc[w] = "done"
    /\ workqueue' = QDone(workqueue, item[w])
    /\ pc' = [pc EXCEPT ![w] = "get"]
    /\ item' = [item EXCEPT ![w] = NoItem]
    /\ last' = [op |-> "done", key |-> item[w], adds |-> addsDuring[item[w]],
                pending |-> Count(workqueue'.queue, item[w])]
    /\ UNCHANGED <<store, resourceVersion, cache, nodeSynced, diskDetails, ownerRef,
                   runPc, stopCh, timerReady, events, addsDuring, backoff>>

\* ---------------------------------------------------------- specification

RequiredOwnerRef == [uid |-> "u1", controller |-> "true", name |-> "ds"]

\* The controller is constructed; the store holds no record of this node, or
\* one that an earlier run left.
Init ==
    /\ store \in {Nil, DeviceNode(DeviceNamespace, NodeID, <<"A", "B">>,
                                  <<RequiredOwnerRef>>, 1)}
    /\ resourceVersion = 1
    /\ cache = Nil
    /\ nodeSynced = FALSE
    /\ diskDetails = <<"A", "C">>
    /\ ownerRef = RequiredOwnerRef
    /\ workqueue = NewQueue
    /\ pc = [w \in Workers |-> "idle"]
    /\ item = [w \in Workers |-> NoItem]
    /\ runPc = "waitSync"
    /\ stopCh = FALSE
    /\ timerReady = FALSE
    /\ events = MaxEvents
    /\ addsDuring = [k \in Items |-> 0]
    /\ backoff = [k \in Items |-> 0]
    /\ last = NoOp

Next ==
    \/ \E h \in Handlers : \E obj \in ObjectsFor(h) : Notify(h, obj)
    \/ Informer
    \/ ProviderChange
    \/ ExternalWrite
    \/ Stop
    \/ \E k \in AllKeys : DelayExpire(k)
    \/ RunStartWorkers
    \/ RunSyncFailed
    \/ RunTimer
    \/ Tick
    \/ RunShutdown
    \/ \E w \in Workers : WorkerBegin(w)
    \/ \E w \in Workers : WorkerGet(w)
    \/ \E w \in Workers : WorkerSync(w)
    \/ \E w \in Workers : WorkerDone(w)

Spec == Init /\ [][Next]_vars

\* The reconciler alone: a worker holds the local node's key, and the cached
\* record, the stored record, the provider's list and the required owner
\* reference are any of the enumerated values. The stored record is the
\* cached one, a newer version of it, or gone.
EnumeratedNodes ==
    {DeviceNode(DeviceNamespace, NodeID, d, r, 1) : d \in DeviceLists, r \in OwnerRefLists}

SyncInit ==
    /\ cache \in EnumeratedNodes \cup {Nil}
    /\ store \in {cache, Nil,
                  IF cache = Nil
                  THEN DeviceNode(DeviceNamespace, NodeID, <<"A">>, <<>>, 2)
                  ELSE [cache EXCEPT !.rv = 2]}
    /\ resourceVersion = 2
    /\ nodeSynced = TRUE
    /\ diskDetails \in DeviceLists
    /\ ownerRef \in RequiredOwnerRefs
    /\ workqueue = [NewQueue EXCEPT !.processing = {LocalKey}]
    /\ pc = [w \in Workers |-> IF w = 1 THEN "sync" ELSE "get"]
    /\ item = [w \in Workers |-> IF w = 1 THEN LocalKey ELSE NoItem]
    /\ runPc = "loop"
    /\ stopCh = FALSE
    /\ timerReady = FALSE
    /\ events = 1
    /\ addsDuring = [k \in Items |-> 0]
    /\ backoff = [k \in Items |-> 0]
    /\ last = NoOp

SyncNext == \E w \in Workers : WorkerSync(w)

SyncSpec == SyncInit /\ [][SyncNext]_vars

\* The worker pool alone, with a queue that was given any items: keys,
\* strings that are no keys, items that are not strings.
QueuedItems ==
    {q \in SeqsUpTo({LocalKey, MalformedKey, NotAString}, 2) : NoDuplicates(q)}

WorkerInit ==
    /\ store \in {Nil, DeviceNode(DeviceNamespace, NodeID, <<"A", "B">>,
                                  <<RequiredOwnerRef>>, 1)}
    /\ cache = store
    /\ resourceVersion = 1
    /\ nodeSynced = TRUE
    /\ diskDetails \in {<<"A", "B">>, <<"A", "C">>}
    /\ ownerRef = RequiredOwnerRef
    /\ \E q \in QueuedItems :
         workqueue = [NewQueue EXCEPT !.queue = q, !.dirty = Range(q)]
    /\ pc = [w \in Workers |-> "get"]
    /\ item = [w \in Workers |-> NoItem]
    /\ runPc = "loop"
    /\ stopCh = FALSE
    /\ timerReady = FALSE
    /\ events = MaxEvents
    /\ addsDuring = [k \in Items |-> 0]
    /\ backoff = [k \in Items |-> 0]
    /\ last = NoOp

WorkerNext ==
    \/ \E k \in Items : DelayExpire(k)
    \/ \E w \in Workers : WorkerGet(w)
    \/ \E w \in Workers : WorkerSync(w)
    \/ \E w \in Workers : WorkerDone(w)

WorkerSpec == WorkerInit /\ [][WorkerNext]_vars

\* The running controller: stopCh stays open. Every goroutine that can take
\* a step eventually takes one: Run's select loop and its timer, the
\* workers, the informer, the queue's delayed adds. The disturbances
\* (provider changes, external writes, failing calls) are not fair: they may
\* stop at any time, and they do stop when the events are used up.
RunningNext ==
    \/ Informer
    \/ ProviderChange
    \/ ExternalWrite
    \/ \E k \in AllKeys : DelayExpire(k)
    \/ RunStartWorkers
    \/ RunTimer
    \/ Tick
    \/ \E w \in Workers : WorkerBegin(w)
    \/ \E w \in Workers : WorkerGet(w)
    \/ \E w \in Workers : WorkerSync(w)
    \/ \E w \in Workers : WorkerDone(w)

Fairness ==
    /\ WF_vars(Informer)
    /\ WF_vars(RunStartWorkers)
    /\ WF_vars(RunTimer)
    /\ WF_vars(Tick)
    /\ \A k \in AllKeys : WF_vars(DelayExpire(k))
    /\ \A w \in Workers : WF_vars(WorkerBegin(w))
    /\ \A w \in Workers : WF_vars(WorkerGet(w))
    /\ \A w \in Workers : WF_vars(WorkerSync(w))
    /\ \A w \in Workers : WF_vars(WorkerDone(w))

FairSpec == Init /\ [][RunningNext]_vars /\ Fairness

\* ---------------------------------------------------------------- claims

\* The same devices, in whatever order.
SameDevices(a, b) == Len(a) = Len(b) /\ Range(a) = Range(b)

\* C1: while the controller runs, once the provider's list has stopped
\* changing and the calls have stopped failing, the stored record's devices
\* become the provider's and stay so.
C1_EventualConvergence ==
    <>[](store # Nil /\ SameDevices(store.devices, diskDetails))

\* C1 witness: after a disturbance, with the workers launched, the stored
\* record holds the provider's devices.
C1_Witness ==
    /\ events < MaxEvents
    /\ runPc = "loop"
    /\ store # Nil
    /\ SameDevices(store.devices, diskDetails)
    /\ last.op = "sync"
    /\ last.pass.updates = 1
    /\ ~last.pass.err

\* The last step was a pass of syncNode for this node's key in which the
\* lister returned the cached record and the provider returned its list.
PassOnRecord ==
    /\ last.op = "sync"
    /\ last.key = LocalKey
    /\ last.got.err = "none"
    /\ ~last.listed.err

\* The first entry with the required owner's UID, 0 when there is none.
OwnerEntry(refs) ==
    IF \A i \in 1..Len(refs) : refs[i].uid # ownerRef.uid THEN 0
    ELSE CHOOSE i \in 1..Len(refs) :
             refs[i].uid = ownerRef.uid /\ \A j \in 1..(i - 1) : refs[j].uid # ownerRef.uid

\* C2: a pass over a record that already has the required owner, with the
\* required controller flag, and the provider's device list issues no create
\* and no update, returns success and leaves the store as it was, so that
\* the next pass finds the same.
C2_IdempotentNoOp ==
    (/\ PassOnRecord
     /\ OwnerEntry(last.got.node.ownerRefs) # 0
     /\ last.got.node.ownerRefs[OwnerEntry(last.got.node.ownerRefs)].controller
            = ownerRef.controller
     /\ last.got.node.devices = last.listed.devices)
    => /\ last.pass.creates = 0
       /\ last.pass.updates = 0
       /\ ~last.pass.err
       /\ store = last.stored
       /\ cache = last.got.node

\* C2 witness: a no-op pass over a record with two owner references and two
\* devices.
C2_Witness ==
    /\ PassOnRecord
    /\ Len(last.got.node.ownerRefs) = 2
    /\ last.got.node.ownerRefs[2] = ownerRef
    /\ Len(last.got.node.devices) = 2
    /\ last.got.node.devices = last.listed.devices
    /\ last.pass.updates = 0
    /\ ~last.pass.err

\* C3 as stated: when the store holds no record of the key, a pass (whose
\* lister and provider calls return) issues exactly one create and no update,
\* of a record with the key's namespace and name, the provider's devices and
\* the required owner alone.
C3_CreateWhenStoreHasNone ==
    (/\ last.op = "sync"
     /\ last.key = LocalKey
     /\ last.got.err # "Other"
     /\ ~last.listed.err
     /\ last.stored = Nil)
    => /\ last.pass.creates = 1
       /\ last.pass.updates = 0

\* C3 as amended: when the lister finds no cached record of the key, and the
\* provider returns its list, the pass issues exactly one create and no
\* update, of a record with the key's namespace and name, the provider's
\* devices and the required owner alone.
C3_CreateOnAbsence ==
    (/\ last.op = "sync"
     /\ last.key = LocalKey
     /\ last.got.err = "NotFound"
     /\ ~last.listed.err)
    => /\ last.pass.creates = 1
       /\ last.pass.updates = 0
       /\ last.pass.submitted.namespace = DeviceNamespace
       /\ last.pass.submitted.name = NodeID
       /\ last.pass.submitted.devices = last.listed.devices
       /\ last.pass.submitted.ownerRefs = <<ownerRef>>

\* C3 witness: a create that the store accepted, with two devices.
C3_Witness ==
    /\ last.op = "sync"
    /\ last.got.err = "NotFound"
    /\ last.pass.creates = 1
    /\ ~last.pass.err
    /\ Len(last.listed.devices) = 2
    /\ store # Nil
    /\ store.devices = last.listed.devices
    /\ last.stored = Nil

\* C4: when the record's devices are not the provider's, the pass issues
\* exactly one update, and the devices it submits are the provider's list as
\* returned.
C4_DeviceReplacement ==
    (/\ PassOnRecord
     /\ Range(last.got.node.devices) # Range(last.listed.devices))
    => /\ last.pass.updates = 1
       /\ last.pass.creates = 0
       /\ last.pass.submitted.devices = last.listed.devices

\* C4 witness: stored {A,B}, provider {A,C}, submitted {A,C}, and the store
\* took the update.
C4_Witness ==
    /\ PassOnRecord
    /\ last.got.node.devices = <<"A", "B">>
    /\ last.listed.devices = <<"A", "C">>
    /\ last.pass.updates = 1
    /\ ~last.pass.err
    /\ store.devices = <<"A", "C">>

\* C5: when no owner reference of the record has the required owner's UID,
\* the pass submits an update whose owner references are the previous ones,
\* each unchanged and in place, followed by the required owner reference.
C5_OwnerAppended ==
    (/\ PassOnRecord
     /\ OwnerEntry(last.got.node.ownerRefs) = 0)
    => /\ last.pass.updates = 1
       /\ Len(last.pass.submitted.ownerRefs) = Len(last.got.node.ownerRefs) + 1
       /\ \A i \in 1..Len(last.got.node.ownerRefs) :
              last.pass.submitted.ownerRefs[i] = last.got.node.ownerRefs[i]
       /\ last.pass.submitted.ownerRefs[Len(last.got.node.ownerRefs) + 1] = ownerRef

\* C5 witness: a record owned by someone else only; the update was accepted.
C5_Witness ==
    /\ PassOnRecord
    /\ Len(last.got.node.ownerRefs) = 1
    /\ last.got.node.ownerRefs[1].uid = "u2"
    /\ last.pass.updates = 1
    /\ ~last.pass.err
    /\ Len(store.ownerRefs) = 2

\* C6: when the (first) entry with the required UID has another controller
\* flag, the pass submits an update in which that entry has the required
\* flag and is otherwise unchanged, and every other entry is unchanged, none
\* added; when the flag is right already, the owner references are not
\* changed, and without a device change nothing is submitted.
C6_OwnerFlagRepaired ==
    PassOnRecord /\ OwnerEntry(last.got.node.ownerRefs) # 0
    => LET old == last.got.node.ownerRefs
           idx == OwnerEntry(old)
       IN  IF old[idx].controller # ownerRef.controller
           THEN /\ last.pass.updates = 1
                /\ Len(last.pass.submitted.ownerRefs) = Len(old)
                /\ \A i \in 1..Len(old) :
                       i # idx => last.pass.submitted.ownerRefs[i] = old[i]
                /\ last.pass.submitted.ownerRefs[idx].controller = ownerRef.controller
                /\ last.pass.submitted.ownerRefs[idx].uid = old[idx].uid
                /\ last.pass.submitted.ownerRefs[idx].name = old[idx].name
           ELSE /\ last.pass.updates = 1 => last.pass.submitted.ownerRefs = old
                /\ last.got.node.devices = last.listed.devices => last.pass.updates = 0

\* C6 witness: the entry with the required UID had controller false and
\* another name than the required reference; the repair was submitted.
C6_Witness ==
    /\ PassOnRecord
    /\ ownerRef.controller = "true"
    /\ Len(last.got.node.ownerRefs) = 2
    /\ last.got.node.ownerRefs[2] = [uid |-> "u1", controller |-> "false", name |-> "old"]
    /\ last.got.node.ownerRefs[1].uid = "u2"
    /\ last.pass.updates = 1
    /\ last.pass.submitted.ownerRefs[2] = [uid |-> "u1", controller |-> "true", name |-> "old"]

\* Every key the queue holds in any form, and every item a worker holds.
KeysInQueue ==
    Range(workqueue.queue) \cup workqueue.dirty \cup workqueue.processing
    \cup workqueue.waitingForAdd \cup {item[w] : w \in {v \in Workers : item[v] # NoItem}}

\* C7: a notification about anything but this node's record (another
\* namespace, another name, a tombstone of such a record, an object of
\* another type) leaves the work queue as it was; and every key in the queue
\* is the local node's.
C7_ForeignKeyRejection ==
    /\ (last.op = "notify" /\ ~last.local) => ~last.changed
    /\ KeysInQueue \subseteq {LocalKey}

\* C7 witness: while the controller runs and a worker is waiting for work, a
\* tombstone of a foreign record has been delivered, and the queue is empty.
C7_Witness ==
    /\ last.op = "notify"
    /\ ~last.local
    /\ last.tombstone
    /\ runPc = "loop"
    /\ \E w \in Workers : pc[w] = "get"
    /\ workqueue.queue = <<>>

\* The worker has taken an item and has not called Done for it yet.
InFlight(w) == pc[w] \in {"sync", "done"}

\* C8: no two workers are between Get and Done for the same key.
C8_NoConcurrentReconciliation ==
    \A w1, w2 \in Workers :
        (w1 # w2 /\ InFlight(w1) /\ InFlight(w2)) => item[w1] # item[w2]

\* C8 witness: a worker is reconciling the key after a failed pass, the key
\* has been added again, and another worker waits in Get without getting it.
C8_Witness ==
    \E w1, w2 \in Workers :
        /\ pc[w1] = "sync"
        /\ item[w1] = LocalKey
        /\ pc[w2] = "get"
        /\ LocalKey \in workqueue.dirty
        /\ workqueue.queue = <<>>
        /\ workqueue.failures[LocalKey] > 0

\* C9: a key is pending at most once, and never while it is processed; when
\* Add was called for it during its processing (with the queue open), then
\* after Done it is pending exactly once, however many the calls; and the Get
\* that takes it leaves nothing of them pending.
C9_DedupUnderLoad ==
    /\ \A k \in AllKeys : Count(workqueue.queue, k) <= 1
    /\ \A k \in workqueue.processing : Count(workqueue.queue, k) = 0
    /\ last.op = "done" => last.pending = (IF last.adds >= 1 THEN 1 ELSE 0)
    /\ last.op = "get" =>
           /\ Count(workqueue.queue, last.key) = 0
           /\ last.key \notin workqueue.dirty
           /\ addsDuring[last.key] = 0

\* C9 witness: Add was called twice during the processing, and after Done
\* the key is pending once.
C9_Witness ==
    /\ last.op = "done"
    /\ last.adds >= 2
    /\ last.pending = 1
    /\ workqueue.queue = <<LocalKey>>

\* C10 as stated: when Run has returned, stopCh is closed, the timer is
\* stopped, the queue is shut down, and no worker is still processing an item.
C10_RunWaitsForWorkers ==
    runPc = "returned" =>
        /\ stopCh
        /\ ~timerReady
        /\ workqueue.shuttingDown
        /\ \A w \in Workers : ~InFlight(w)

\* The record the lister returned needs no owner repair.
OwnerInPlace ==
    /\ OwnerEntry(last.got.node.ownerRefs) # 0
    /\ last.got.node.ownerRefs[OwnerEntry(last.got.node.ownerRefs)].controller
           = ownerRef.controller

C12_BackoffGrowthAndReset ==
    (last.op = "sync" /\ last.pass.err) =>
        /\ workqueue.delay[last.key] >= last.prevDelay
        /\ workqueue.delay[last.key] >= BaseDelay
        /\ workqueue.delay[last.key] <= MaxDelay
        /\ last.prevDelay = 0 => workqueue.delay[last.key] = BaseDelay

\* C12 witness: the third failure in a row of the local key: the delays were
\* the minimum, then the cap, and now the cap again.
C12_Witness ==
    /\ last.op = "sync"
    /\ last.pass.err
    /\ last.key = LocalKey
    /\ last.prevDelay = MaxDelay
    /\ workqueue.delay[LocalKey] = MaxDelay
    /\ workqueue.failures[LocalKey] = MaxRequeues
    /\ BaseDelay < MaxDelay

\* C13: a worker that has processed its item goes on to Done with the same
\* item, having made exactly one report: after an error AddRateLimited (one
\* more failure counted, a delay set, the item waiting to be added unless the
\* queue is shut down) and no Forget; without error Forget (no failure
\* counted, no delay) and no AddRateLimited. Done ends the item's processing
\* and the worker goes back to Get. A worker exits only when Get reports
\* shutdown (or when stopCh was closed before it began).
C13_WorkerProtocol ==
    [][\A w \in Workers :
          /\ (pc[w] = "sync" /\ pc'[w] # "sync") =>
                 /\ pc'[w] = "done"
                 /\ item'[w] = item[w]
                 /\ last'.op = "sync"
                 /\ IF last'.pass.err
                    THEN /\ workqueue'.failures[item[w]] =
                                Min(workqueue.failures[item[w]] + 1, MaxRequeues)
                         /\ workqueue'.delay[item[w]] > 0
                         /\ workqueue.shuttingDown
                                \/ item[w] \in workqueue'.waitingForAdd
                    ELSE /\ workqueue'.failures[item[w]] = 0
                         /\ workqueue'.delay[item[w]] = 0
                         /\ workqueue'.waitingForAdd = workqueue.waitingForAdd
          /\ (pc[w] = "done" /\ pc'[w] # "done") =>
                 /\ pc'[w] = "get"
                 /\ item[w] \in workqueue.processing
                 /\ item[w] \notin workqueue'.processing
          /\ (pc[w] # "exited" /\ pc'[w] = "exited") =>
                 \/ pc[w] = "get" /\ workqueue.shuttingDown /\ workqueue.queue = <<>>
                 \/ pc[w] = "start" /\ stopCh
      ]_vars

\* C13 witness: a worker has called Done after a failed pass and is back at
\* Get; the key waits for its delayed add.
C13_Witness ==
    /\ last.op = "done"
    /\ last.key = LocalKey
    /\ workqueue.failures[LocalKey] > 0
    /\ LocalKey \in workqueue.waitingForAdd
    /\ LocalKey \notin workqueue.processing
    /\ \A w \in Workers : pc[w] = "get"

\* The key of the last pass has been re-added through AddRateLimited: a
\* failure is counted, a delay is set, and the key waits to be added.
Requeued ==
    /\ workqueue.failures[last.key] >= 1
    /\ workqueue.delay[last.key] >= BaseDelay
    /\ workqueue.shuttingDown \/ last.key \in workqueue.waitingForAdd

\* C14: when the provider fails in a pass, the pass issues no create and no
\* update, store and cached record are as before, whether or not the record
\* exists, the pass returns an error and the key is re-added through
\* AddRateLimited.
C14_ProviderFailure ==
    (last.op = "sync" /\ last.key = LocalKey /\ last.outcome = "provider")
    => /\ last.pass.lists = 1
       /\ last.pass.creates = 0
       /\ last.pass.updates = 0
       /\ last.pass.err
       /\ store = last.stored
       /\ cache = last.cached
       /\ Requeued

\* C14 witness: the provider failed in a pass over a record with other
\* devices than the provider's; the key waits for its delayed add.
C14_Witness ==
    /\ last.op = "sync"
    /\ last.key = LocalKey
    /\ last.outcome = "provider"
    /\ last.cached # Nil
    /\ store = last.cached
    /\ Range(store.devices) # Range(diskDetails)
    /\ last.pass.err
    /\ LocalKey \in workqueue.waitingForAdd

\* The lister's call of the last pass failed with another error than
\* not-found.
ReadFailed == last.outcome = "lister"

\* The create or update call of the last pass failed: for a reason of the
\* store's own, or because the record existed already (create), or was gone
\* or had another version token than the submitted one (update).
WriteFailed ==
    /\ last.pass.creates + last.pass.updates >= 1
    /\ \/ last.outcome = "store"
       \/ last.pass.creates = 1 /\ last.stored # Nil
       \/ last.pass.updates = 1 /\ last.stored = Nil
       \/ /\ last.pass.updates = 1
          /\ last.stored # Nil
          /\ last.stored.rv # last.pass.submitted.rv

\* C15: when the lister's read, the create or the update fails in a pass, the
\* stored record is as it was, the pass made no store call after the failed
\* one, it returns an error, and the key is re-added through AddRateLimited.
C15_StoreFailure ==
    (last.op = "sync" /\ last.key = LocalKey /\ (ReadFailed \/ WriteFailed))
    => /\ last.pass.err
       /\ store = last.stored
       /\ last.pass.reads = 1
       /\ last.pass.creates + last.pass.updates <= 1
       /\ ReadFailed => last.pass.creates + last.pass.updates + last.pass.lists = 0
       /\ Requeued

\* C15 witness: an update built on a cached record with a stale version
\* token was rejected; the store holds its newer version still.
C15_Witness ==
    /\ last.op = "sync"
    /\ last.key = LocalKey
    /\ last.outcome = "ok"
    /\ last.pass.updates = 1
    /\ last.stored # Nil
    /\ last.pass.submitted.rv < last.stored.rv
    /\ last.pass.err
    /\ store = last.stored
    /\ LocalKey \in workqueue.waitingForAdd

\* The item cannot be processed: it is no string, or no key.
Unprocessable(it) == ~IsString(it) \/ SplitMetaNamespaceKey(it).err

\* C16: for an item that is no string or no key the worker calls neither the
\* lister nor the provider nor the store; it forgets the item, never adds it
\* rate-limited, and after Done the item is neither processing nor pending.
C16_UnprocessableDropped ==
    /\ \A it \in {i \in Items : Unprocessable(i)} :
           /\ it \notin workqueue.waitingForAdd
           /\ workqueue.failures[it] = 0
           /\ workqueue.delay[it] = 0
    /\ (last.op = "sync" /\ Unprocessable(last.key)) =>
           /\ last.pass.reads + last.pass.lists = 0
           /\ last.pass.creates + last.pass.updates = 0
           /\ ~last.pass.err
           /\ store = last.stored
           /\ cache = last.cached
    /\ (last.op = "done" /\ Unprocessable(last.key)) =>
           /\ last.key \notin workqueue.processing
           /\ last.key \notin workqueue.dirty
           /\ last.pending = 0

\* C16 witness: both a string that is no key and an item that is no string
\* have been taken from the queue, and the second of them is done with.
C16_Witness ==
    /\ last.op = "done"
    /\ Unprocessable(last.key)
    /\ workqueue.queue = <<>>
    /\ workqueue.processing = {}
    /\ \A w \in Workers : pc[w] = "get"
    /\ workqueue.dirty = {}
    /\ store = Nil

\* C17 as stated: the resync timer adds the local key to the queue only
\* while stopCh is open.
C17_NoTimerAddAfterStop ==
    last.op = "timer" => ~(last.stopped /\ last.added)

\* C18: until the informer cache has synced, and as long as Run waits for
\* it, no worker has been launched, no timer exists, and the last step was
\* neither the timer's nor a worker's; when the wait has failed, Run has
\* returned with the queue shut down, and still no worker was launched and
\* the timer added nothing.
C18_CacheSyncGate ==
    /\ (~nodeSynced \/ runPc \in {"waitSync", "failed"}) =>
           /\ \A w \in Workers : pc[w] = "idle" /\ item[w] = NoItem
           /\ ~timerReady
           /\ last.op \notin {"timer", "get", "sync", "done"}
           /\ workqueue.processing = {}
    /\ ~nodeSynced => runPc \in {"waitSync", "failed"}
    /\ runPc = "failed" => stopCh /\ workqueue.shuttingDown

\* C18 witness: the wait for the cache failed while a notification had put
\* the local key into the queue already; it is pending still.
C18_Witness ==
    /\ runPc = "failed"
    /\ ~nodeSynced
    /\ workqueue.shuttingDown
    /\ workqueue.queue = <<LocalKey>>

\* C19: after every pass the informer cache holds the record it held before
\* the pass, with the same owner references, controller flags and devices.
C19_CacheNeverMutated ==
    last.op = "sync" =>
        /\ cache = last.cached
        /\ last.pass.cache = last.cached

\* C19 witness: a pass repaired the controller flag and replaced the devices
\* in its copy, and its update failed; the cached record has the old flag and
\* the old devices.
C19_Witness ==
    /\ last.op = "sync"
    /\ last.cached # Nil
    /\ last.pass.updates = 1
    /\ last.pass.err
    /\ OwnerEntry(last.cached.ownerRefs) # 0
    /\ Len(last.pass.submitted.ownerRefs) = Len(last.cached.ownerRefs)
    /\ last.pass.submitted.ownerRefs # cache.ownerRefs
    /\ Range(last.pass.submitted.devices) # Range(cache.devices)

\* The controller with its shutdown, fairly scheduled: as FairSpec, and
\* stopCh may be closed, on which Run's select, or its wait for the cache,
\* eventually sees it.
StopNext ==
    \/ RunningNext
    \/ Stop
    \/ RunSyncFailed
    \/ RunShutdown

StopSpec ==
    /\ Init
    /\ [][StopNext]_vars
    /\ Fairness
    /\ WF_vars(RunSyncFailed)
    /\ WF_vars(RunShutdown)

\* Every worker that was launched has left its loop, holding nothing.
WorkersGone ==
    /\ \A w \in Workers : pc[w] \in {"idle", "exited"} /\ item[w] = NoItem
    /\ workqueue.processing = {}

\* C20: once stopCh is closed, the workers eventually have all finished
\* their items, Done included, and left their loops, for good.
C20_WorkersTerminate == stopCh ~> []WorkersGone

\* C20 witness: Run has returned and the workers have gone, after a failed
\* pass whose delayed add was never made.
C20_Witness ==
    /\ stopCh
    /\ runPc = "returned"
    /\ \A w \in Workers : pc[w] = "exited"
    /\ WorkersGone
    /\ workqueue.failures[LocalKey] > 0
    /\ LocalKey \in workqueue.waitingForAdd

====
